---- MODULE Spec2Model ----
(***************************************************************************)
(* A model of the golf-AI-analytics pipeline: document_processor.py        *)
(* (chunk_content, analyze_chunk, analyze_player_performance,              *)
(* process_document), ppt_generator.py (extract_metrics,                   *)
(* create_presentation) and their callers.                                 *)
(*                                                                         *)
(* Python strings are modelled as sequences of one-character strings, so   *)
(* that split, strip, concatenation and the regular expressions are        *)
(* computed the way the interpreter computes them.                         *)
(***************************************************************************)
EXTENDS Integers, Sequences, FiniteSets, TLC

(***************************************************************************)
(* Bounds of the model.                                                    *)
(***************************************************************************)
\* longest input text given to chunk_content
MaxTextLen == 4
\* largest max_tokens given to chunk_content
MaxTokens == 3
\* longest analysis text, in characters, drawn from every string of the
\* metric alphabet
MaxMetricLen == 3
\* most lines of an analysis text built from whole lines
MaxMetricLines == 2
\* most lines of an analysis text given to create_presentation
MaxDeckLines == 3
\* the template's headings are at most this many
MaxHeadings == 2
\* the template's bullet patterns are at most this many
MaxBulletPatterns == 3
\* the user starts at most this many runs of the app in a session
MaxReruns == 4

VARIABLES
    \* ---- chunk_content (document_processor.py:39-77) ----
    text,            \* the argument text
    max_tokens,      \* the argument max_tokens
    tokenizer,       \* which deterministic stub stands for tiktoken: "words" | "chars"
    paragraphs,      \* the paragraphs the for loop has not visited yet
    chunks,          \* the local list chunks
    current_chunk,   \* the local string current_chunk
    current_tokens,  \* the local counter current_tokens
    \* ---- the call under way ----
    entry,           \* the public entry point that was called
    pc,              \* the position inside it; "done" once it has returned or raised
    outcome,         \* "running" | "returned" | "raised"
    \* ---- extract_metrics (ppt_generator.py:9-31) ----
    mtext,           \* the argument text
    mtext_is_str,    \* FALSE when the argument is not a string (re.findall raises)
    metric_matches,  \* the matches of re.findall the for loop has not visited yet
    metrics,         \* the dict metrics: values, labels, percentages
    \* ---- process_document, analyze_chunk, analyze_player_performance ----
    file_path,       \* the argument file_path of process_document
    selected_player, \* the argument selected_player: "None", "" or a name
    doc_text,        \* the text of the document (df.to_string())
    df_columns_str,  \* whether every column name of df is a string
    client,          \* the argument client: "client", or "None" as validate_api_key
                     \* returns it for a key that is not valid
    result,          \* the value returned, as [type, head, tail]
    net_calls,       \* the number of network calls issued so far
    gen_log,         \* the text-generation calls issued so far, by purpose
    \* ---- create_presentation (ppt_generator.py:50-120) ----
    analysis,        \* the argument analysis
    sections,        \* the sections the for loop has not visited yet
    slides,          \* the slides of prs, in order
    deck_metrics,    \* the local dict metrics
    temp_files,      \* the temporary files the call created that still exist
    faults,          \* the steps of the call in which the deck library raised
    \* ---- TemplateAnalyzer.generate_prompt (template_analyzer.py:207-230) ----
    template_data,   \* the argument template_data: None or a dict
    tp_headings,     \* the headings the for loop has not visited yet
    prompt,          \* the local string prompt, as the list of its lines
    \* ---- main (app.py:9-133), one browser session ----
    caller,          \* "main" while the script of the app runs the calls, else "none"
    app_pc,          \* the position of the script; "idle" between two runs
    uploaded_file,   \* the value of the file uploader
    data_df,         \* st.session_state.data_df: the file it was read from, or NoFile
    players_list,    \* st.session_state.players_list
    analysis_result, \* st.session_state.analysis_result, as [type, head, tail]
    analysis_text,   \* the text of analysis_result when the service answered
    analysis_player, \* the player whose analysis analysis_result is
    player_selector, \* the value of the select box
    button,          \* the button whose click started the run under way
    widgets,         \* the widgets the run under way (or the last one) has shown
    reruns,          \* the number of runs the user has started
    download_name    \* the player named in the file name of the download offered

callVars == <<entry, pc, outcome>>

chunkArgs == <<text, max_tokens, tokenizer>>

chunkVars == <<text, max_tokens, tokenizer, paragraphs, chunks, current_chunk,
               current_tokens>>

metricArgs == <<mtext, mtext_is_str>>

metricVars == <<mtext, mtext_is_str, metric_matches, metrics>>

docArgs == <<file_path, selected_player, doc_text, df_columns_str, client>>

docVars == <<file_path, selected_player, doc_text, df_columns_str, client, result,
             net_calls, gen_log>>

deckVars == <<analysis, sections, slides, deck_metrics, temp_files, faults>>

tmplVars == <<template_data, tp_headings, prompt>>

sessionVars == <<data_df, players_list, analysis_result, analysis_text, analysis_player>>

uiVars == <<uploaded_file, player_selector, button, widgets, reruns, download_name>>

appVars == <<caller, app_pc, sessionVars, uiVars>>

vars == <<callVars, chunkVars, metricVars, docVars, deckVars, tmplVars, appVars>>

(***************************************************************************)
(* Python string primitives.                                               *)
(***************************************************************************)
\* str.isspace for the characters of the model
IsSpace(c) == c \in {" ", "\n"}

\* the characters texts are drawn from: two letters, a space and a line break
TextAlphabet == {"a", "b", " ", "\n"}

\* all strings over alphabet A of length at most n
StringsUpTo(A, n) == UNION {[1..k -> A] : k \in 0..n}

\* s[i:] for a 1-based i
Drop(s, i) == SubSeq(s, i, Len(s))

\* index of the first occurrence of character c in s at or after i, or Len(s)+1
RECURSIVE FindChar(_, _, _)
FindChar(s, c, i) ==
    IF i > Len(s) THEN Len(s) + 1
    ELSE IF s[i] = c THEN i
    ELSE FindChar(s, c, i + 1)

\* s.split(sep) for a one-character separator: every separator cuts, empty
\* pieces are kept, and "".split(sep) is [""]
RECURSIVE SplitOn(_, _)
SplitOn(s, sep) ==
    LET j == FindChar(s, sep, 1)
    IN  IF j > Len(s) THEN <<s>>
        ELSE <<SubSeq(s, 1, j - 1)>> \o SplitOn(Drop(s, j + 1), sep)

\* index of the first character of s at or after i that is (not) white space
RECURSIVE SkipSpace(_, _)
SkipSpace(s, i) ==
    IF i > Len(s) \/ ~IsSpace(s[i]) THEN i ELSE SkipSpace(s, i + 1)

RECURSIVE SkipWord(_, _)
SkipWord(s, i) ==
    IF i > Len(s) \/ IsSpace(s[i]) THEN i ELSE SkipWord(s, i + 1)

\* s.split(): cut on runs of white space, no empty pieces
RECURSIVE SplitWs(_)
SplitWs(s) ==
    LET b == SkipSpace(s, 1)
        e == SkipWord(s, b)
    IN  IF b > Len(s) THEN <<>>
        ELSE <<SubSeq(s, b, e - 1)>> \o SplitWs(Drop(s, e))

\* index of the last character of s at or before i that is not white space, or 0
RECURSIVE LastNonSpace(_, _)
LastNonSpace(s, i) ==
    IF i = 0 \/ ~IsSpace(s[i]) THEN i ELSE LastNonSpace(s, i - 1)

\* s.strip()
Strip(s) == SubSeq(s, SkipSpace(s, 1), LastNonSpace(s, Len(s)))

(***************************************************************************)
(* get_token_count: tiktoken is an external library; the chunker needs a   *)
(* deterministic, pure count from it.  Two stubs stand for it: one counts  *)
(* the words of the text, the other its characters.                        *)
(***************************************************************************)
GetTokenCount(s) ==
    IF tokenizer = "words" THEN Len(SplitWs(s)) ELSE Len(s)

(***************************************************************************)
(* chunk_content, the word-level loop (lines 53-62): the state after the   *)
(* for loop over words, as [chunks, temp_chunk].                           *)
(***************************************************************************)
RECURSIVE WordLoop(_, _, _)
WordLoop(words, temp_chunk, acc) ==
    IF words = <<>> THEN [chunks |-> acc, temp_chunk |-> temp_chunk]
    ELSE LET word == Head(words)
         IN  IF GetTokenCount(temp_chunk \o <<" ">> \o word) < max_tokens
             THEN WordLoop(Tail(words), temp_chunk \o <<" ">> \o word, acc)
             ELSE WordLoop(Tail(words), word, Append(acc, Strip(temp_chunk)))

\* the words left in temp_chunk after the loop are not appended
SplitLongParagraphNoRest(paragraph, acc) ==
    WordLoop(SplitWs(paragraph), <<>>, acc).chunks

\* lines 53-62: the chunks list after an over-long paragraph was split by words
SplitLongParagraph(paragraph, acc) ==
    LET r == WordLoop(SplitWs(paragraph), <<>>, acc)
    IN  IF r.temp_chunk # <<>>
        THEN Append(r.chunks, Strip(r.temp_chunk))
        ELSE r.chunks

(***************************************************************************)
(* chunk_content, the body of the for loop over paragraphs (lines 48-72):  *)
(* the locals after one iteration.                                         *)
(***************************************************************************)
ParagraphStep(st, paragraph) ==
    LET paragraph_tokens == GetTokenCount(paragraph)
    IN  IF paragraph_tokens > max_tokens
        THEN [st EXCEPT !.chunks = SplitLongParagraph(paragraph, st.chunks)]
        ELSE IF st.current_tokens + paragraph_tokens < max_tokens
        THEN [st EXCEPT !.current_chunk = st.current_chunk \o <<"\n">> \o paragraph,
                        !.current_tokens = st.current_tokens + paragraph_tokens]
        ELSE [chunks |-> Append(st.chunks, Strip(st.current_chunk)),
              current_chunk |-> paragraph,
              current_tokens |-> paragraph_tokens]

\* lines 74-77: the last chunk is flushed when it is not the empty string
FlushLast(st) ==
    IF st.current_chunk # <<>>
    THEN Append(st.chunks, Strip(st.current_chunk))
    ELSE st.chunks

RECURSIVE ChunkLoop(_, _)
ChunkLoop(ps, st) ==
    IF ps = <<>> THEN st ELSE ChunkLoop(Tail(ps), ParagraphStep(st, Head(ps)))

\* chunk_content(t, max_tokens) as a function of its argument
ChunkContent(t) ==
    FlushLast(ChunkLoop(SplitOn(t, "\n"),
                        [chunks |-> <<>>, current_chunk |-> <<>>, current_tokens |-> 0]))

\* the locals of the call under way
ChunkLocals ==
    [chunks |-> chunks, current_chunk |-> current_chunk,
     current_tokens |-> current_tokens]

\* one iteration of the for loop on the next paragraph
ChunkIterate ==
    LET st == ParagraphStep(ChunkLocals, Head(paragraphs))
    IN  /\ chunks' = st.chunks
        /\ current_chunk' = st.current_chunk
        /\ current_tokens' = st.current_tokens
        /\ paragraphs' = Tail(paragraphs)

(***************************************************************************)
(* chunk_content, one action per branch.                                   *)
(***************************************************************************)
\* lines 41-46: the locals are initialised and the text is split into lines
ChunkStart ==
    /\ entry = "chunk_content"
    /\ pc = "start"
    /\ chunks' = <<>>
    /\ current_chunk' = <<>>
    /\ current_tokens' = 0
    /\ paragraphs' = SplitOn(text, "\n")
    /\ pc' = "loop"
    /\ UNCHANGED <<entry, outcome, chunkArgs, metricVars, docVars, deckVars,
                   tmplVars, appVars>>

\* lines 52-63: a paragraph above the limit is split into words; the chunk
\* under accumulation is left as it is
ChunkLongParagraph ==
    /\ entry = "chunk_content"
    /\ pc = "loop"
    /\ paragraphs # <<>>
    /\ GetTokenCount(Head(paragraphs)) > max_tokens
    /\ ChunkIterate
    /\ UNCHANGED <<callVars, chunkArgs, metricVars, docVars, deckVars,
                   tmplVars, appVars>>

\* lines 66-68: the paragraph is added to the chunk under accumulation
ChunkAccumulate ==
    /\ entry = "chunk_content"
    /\ pc = "loop"
    /\ paragraphs # <<>>
    /\ ~(GetTokenCount(Head(paragraphs)) > max_tokens)
    /\ current_tokens + GetTokenCount(Head(paragraphs)) < max_tokens
    /\ ChunkIterate
    /\ UNCHANGED <<callVars, chunkArgs, metricVars, docVars, deckVars,
                   tmplVars, appVars>>

\* lines 69-72: the chunk under accumulation is closed and the paragraph
\* starts the next one
ChunkClose ==
    /\ entry = "chunk_content"
    /\ pc = "loop"
    /\ paragraphs # <<>>
    /\ ~(GetTokenCount(Head(paragraphs)) > max_tokens)
    /\ ~(current_tokens + GetTokenCount(Head(paragraphs)) < max_tokens)
    /\ ChunkIterate
    /\ UNCHANGED <<callVars, chunkArgs, metricVars, docVars, deckVars,
                   tmplVars, appVars>>

\* lines 74-77: the last chunk is flushed and chunks is returned
ChunkReturn ==
    /\ entry = "chunk_content"
    /\ pc = "loop"
    /\ paragraphs = <<>>
    /\ chunks' = FlushLast(ChunkLocals)
    /\ pc' = "done"
    /\ outcome' = "returned"
    /\ UNCHANGED <<entry, chunkArgs, paragraphs, current_chunk, current_tokens,
                   metricVars, docVars, deckVars,
                   tmplVars, appVars>>

(***************************************************************************)
(* extract_metrics (ppt_generator.py:9-31).                                *)
(***************************************************************************)
\* \d of the regular expressions
IsDigit(c) == c \in {"0", "1", "2", "3", "4", "5", "6", "7", "8", "9"}

\* index of the first character of s at or after i that is not a digit
RECURSIVE SkipDigits(_, _)
SkipDigits(s, i) ==
    IF i > Len(s) \/ ~IsDigit(s[i]) THEN i ELSE SkipDigits(s, i + 1)

\* index of the first character of s at or after i that is ":" or a line
\* break: the end of the longest run [^:\n]* from i
RECURSIVE SkipLabel(_, _)
SkipLabel(s, i) ==
    IF i > Len(s) \/ s[i] \in {":", "\n"} THEN i ELSE SkipLabel(s, i + 1)

\* the end of a number \d+(?:\.\d+)? starting at k, or k when there is none
NumberEnd(s, k) ==
    LET d == SkipDigits(s, k)
    IN  IF d > k /\ d <= Len(s) /\ s[d] = "." /\ SkipDigits(s, d + 1) > d + 1
        THEN SkipDigits(s, d + 1)
        ELSE d

\* line 19 as it would be with the pattern ([^:\n]*):\s*(\d+(?:\.\d+)?), whose
\* label may be empty
MetricMatchAtAnyLabel(s, i) ==
    LET j == SkipLabel(s, i)
        k == SkipSpace(s, j + 1)
        e == NumberEnd(s, k)
    IN  IF j <= Len(s) /\ s[j] = ":" /\ e > k
        THEN [ok |-> TRUE, label |-> SubSeq(s, i, j - 1),
              value |-> SubSeq(s, k, e - 1), end |-> e]
        ELSE [ok |-> FALSE, label |-> <<>>, value |-> <<>>, end |-> i]

\* line 19, the pattern ([^:\n]+):\s*(\d+(?:\.\d+)?) tried at position i: the
\* label run is greedy and must be followed by the colon, so only the longest
\* run can match
MetricMatchAt(s, i) ==
    LET j == SkipLabel(s, i)
        k == SkipSpace(s, j + 1)
        e == NumberEnd(s, k)
    IN  IF j > i /\ j <= Len(s) /\ s[j] = ":" /\ e > k
        THEN [ok |-> TRUE, label |-> SubSeq(s, i, j - 1),
              value |-> SubSeq(s, k, e - 1), end |-> e]
        ELSE [ok |-> FALSE, label |-> <<>>, value |-> <<>>, end |-> i]

\* re.findall of that pattern: the leftmost match from i on, then the next
\* one after its end; the result is the list of (label, value) pairs
RECURSIVE MetricFindAll(_, _)
MetricFindAll(s, i) ==
    IF i > Len(s) THEN <<>>
    ELSE LET m == MetricMatchAt(s, i)
         IN  IF m.ok
             THEN <<[label |-> m.label, value |-> m.value]>> \o MetricFindAll(s, m.end)
             ELSE MetricFindAll(s, i + 1)

\* c in s
Contains(s, c) == \E i \in 1..Len(s) : s[i] = c

\* s.strip(c) for one character c
RECURSIVE LStripChar(_, _)
LStripChar(s, c) ==
    IF s # <<>> /\ Head(s) = c THEN LStripChar(Tail(s), c) ELSE s

RECURSIVE RStripChar(_, _)
RStripChar(s, c) ==
    IF s # <<>> /\ s[Len(s)] = c THEN RStripChar(SubSeq(s, 1, Len(s) - 1), c) ELSE s

StripChar(s, c) == RStripChar(LStripChar(s, c), c)

\* the value of one decimal digit
DigitValue(c) ==
    CASE c = "0" -> 0 [] c = "1" -> 1 [] c = "2" -> 2 [] c = "3" -> 3
      [] c = "4" -> 4 [] c = "5" -> 5 [] c = "6" -> 6 [] c = "7" -> 7
      [] c = "8" -> 8 [] c = "9" -> 9

\* int(s) for a string of digits
RECURSIVE ParseInt(_)
ParseInt(s) ==
    IF s = <<>> THEN 0
    ELSE 10 * ParseInt(SubSeq(s, 1, Len(s) - 1)) + DigitValue(s[Len(s)])

\* float(s) for digits with an optional fraction: the number as its whole
\* part and its fraction digits without trailing zeros, so that equal floats
\* are equal values ("2.50" and "2.5", "25" and "25.0")
ParseFloat(s) ==
    LET d == FindChar(s, ".", 1)
    IN  [whole |-> ParseInt(SubSeq(s, 1, d - 1)),
         frac |-> RStripChar(Drop(s, d + 1), "0")]

\* lines 20-26 as they would be with the records keyed by label: a label seen
\* before replaces its value instead of adding a record
AppendMetricKeyed(m, match) ==
    IF \E i \in 1..Len(m.labels) : m.labels[i] = Strip(match.label)
    THEN [m EXCEPT !.values =
              [i \in 1..Len(m.values) |->
                  IF m.labels[i] = Strip(match.label)
                  THEN ParseFloat(StripChar(match.value, "%"))
                  ELSE m.values[i]]]
    ELSE [percentages |-> Append(m.percentages,
                                 Contains(match.label, "%") \/ Contains(match.value, "%")),
          values |-> Append(m.values, ParseFloat(StripChar(match.value, "%"))),
          labels |-> Append(m.labels, Strip(match.label))]

\* lines 20-26: the dict after one (label, value) pair was visited
AppendMetric(m, match) ==
    [percentages |-> Append(m.percentages,
                            Contains(match.label, "%") \/ Contains(match.value, "%")),
     values |-> Append(m.values, ParseFloat(StripChar(match.value, "%"))),
     labels |-> Append(m.labels, Strip(match.label))]

\* lines 11-15 and 31: the dict with three empty lists
EmptyMetrics == [values |-> <<>>, labels |-> <<>>, percentages |-> <<>>]

RECURSIVE MetricLoop(_, _)
MetricLoop(matches, m) ==
    IF matches = <<>> THEN m
    ELSE MetricLoop(Tail(matches), AppendMetric(m, Head(matches)))

\* extract_metrics(t) as a function of a string argument
ExtractMetrics(t) == MetricLoop(MetricFindAll(t, 1), EmptyMetrics)

\* lines 11-19: the dict is created and the pattern is matched over the text
MetricsFindAll ==
    /\ entry = "extract_metrics"
    /\ pc = "start"
    /\ mtext_is_str
    /\ metrics' = EmptyMetrics
    /\ metric_matches' = MetricFindAll(mtext, 1)
    /\ pc' = "loop"
    /\ UNCHANGED <<entry, outcome, metricArgs, chunkVars, docVars, deckVars,
                   tmplVars, appVars>>

\* lines 20-26: one pair is appended to the three lists
MetricsAppend ==
    /\ entry = "extract_metrics"
    /\ pc = "loop"
    /\ metric_matches # <<>>
    /\ metrics' = AppendMetric(metrics, Head(metric_matches))
    /\ metric_matches' = Tail(metric_matches)
    /\ UNCHANGED <<callVars, metricArgs, chunkVars, docVars, deckVars,
                   tmplVars, appVars>>

\* line 28: the dict is returned
MetricsReturn ==
    /\ entry = "extract_metrics"
    /\ pc = "loop"
    /\ metric_matches = <<>>
    /\ pc' = "done"
    /\ outcome' = "returned"
    /\ UNCHANGED <<entry, metricVars, chunkVars, docVars, deckVars,
                   tmplVars, appVars>>

\* lines 29-31: re.findall raises on an argument that is no string; the
\* exception is printed and a dict with three empty lists is returned
MetricsExcept ==
    /\ entry = "extract_metrics"
    /\ pc = "start"
    /\ ~mtext_is_str
    /\ metrics' = EmptyMetrics
    /\ pc' = "done"
    /\ outcome' = "returned"
    /\ UNCHANGED <<entry, metricArgs, metric_matches, chunkVars, docVars, deckVars,
                   tmplVars, appVars>>

MetricsNext ==
    \/ MetricsFindAll
    \/ MetricsAppend
    \/ MetricsReturn
    \/ MetricsExcept


(***************************************************************************)
(* The values the entry points of document_processor.py return.  A string  *)
(* is kept as its first word, which is what startswith inspects, and the   *)
(* literal text that follows it; the message of the exception and the text *)
(* of the service are left out.                                            *)
(***************************************************************************)
NoResult == [type |-> "none", head |-> "", tail |-> ""]

Str(head, tail) == [type |-> "str", head |-> head, tail |-> tail]

\* document_processor.py:318
InvalidKeyResult == Str("Error", ": Invalid OpenAI API key. Please check the configuration.")
\* document_processor.py:339
UnsupportedFormat == Str("Unsupported", " file format: ")
\* document_processor.py:337
ErrorProcessingFile == Str("Error", " processing file: ")
\* document_processor.py:342
ErrorProcessingDocument == Str("Error", " processing document: ")
\* document_processor.py:120
ErrorAnalyzingChunk == Str("Error", " analyzing chunk: ")
\* document_processor.py:311
ErrorAnalyzingPlayer == Str("Error", " analyzing player performance: ")
\* document_processor.py:118 and 309: the text the service answered
ServiceText == Str("Analysis", "")
\* document_processor.py:135 and 138: a list of players, possibly empty
PlayersList == [type |-> "list", head |-> "", tail |-> ""]

\* return r
Return(r) ==
    /\ result' = r
    /\ pc' = "done"
    /\ outcome' = "returned"

\* an exception leaves the entry point
Raise ==
    /\ result' = NoResult
    /\ pc' = "done"
    /\ outcome' = "raised"

(***************************************************************************)
(* os.path.splitext and str.lower, for the paths of the model.             *)
(***************************************************************************)
LowerChar(c) ==
    CASE c = "X" -> "x" [] c = "L" -> "l" [] c = "S" -> "s"
      [] c = "C" -> "c" [] c = "V" -> "v" [] OTHER -> c

Lower(s) == [i \in 1..Len(s) |-> LowerChar(s[i])]

\* index of the last occurrence of character c in s at or before i, or 0
RECURSIVE RFindChar(_, _, _)
RFindChar(s, c, i) ==
    IF i = 0 THEN 0
    ELSE IF s[i] = c THEN i
    ELSE RFindChar(s, c, i - 1)

\* index of the first character of s at or after i that is not c
RECURSIVE SkipChar(_, _, _)
SkipChar(s, c, i) ==
    IF i > Len(s) \/ s[i] # c THEN i ELSE SkipChar(s, c, i + 1)

\* os.path.splitext(path)[1] for a path without directories: the text from
\* the last dot on, unless only dots precede that dot
SplitExt(path) ==
    LET d == RFindChar(path, ".", Len(path))
    IN  IF d > 0 /\ SkipChar(path, ".", 1) < d THEN Drop(path, d) ELSE <<>>

\* the truth value of the argument selected_player
Truthy(player) == player \notin {"None", ""}

(***************************************************************************)
(* process_document (document_processor.py:314-342).                       *)
(***************************************************************************)
\* lines 316 and 12-16: client.models.list() succeeds
PD_KeyValid ==
    /\ entry = "process_document"
    /\ pc = "start"
    /\ net_calls' = net_calls + 1
    /\ pc' = "extension"
    /\ UNCHANGED <<entry, outcome, result, gen_log, docArgs, chunkVars, metricVars, deckVars,
                   tmplVars, appVars>>

\* lines 17-19 and 317-318: client.models.list() raises OpenAIError
PD_KeyInvalid ==
    /\ entry = "process_document"
    /\ pc = "start"
    /\ net_calls' = net_calls + 1
    /\ Return(InvalidKeyResult)
    /\ UNCHANGED <<entry, gen_log, docArgs, chunkVars, metricVars, deckVars,
                   tmplVars, appVars>>

\* lines 341-342: client.models.list() raises another exception, which
\* validate_api_key does not catch
PD_KeyException ==
    /\ entry = "process_document"
    /\ pc = "start"
    /\ net_calls' = net_calls + 1
    /\ Return(ErrorProcessingDocument)
    /\ UNCHANGED <<entry, gen_log, docArgs, chunkVars, metricVars, deckVars,
                   tmplVars, appVars>>

\* lines 320-322: the lower-cased extension is a spreadsheet's
PD_Supported ==
    /\ entry = "process_document"
    /\ pc = "extension"
    /\ Lower(SplitExt(file_path)) \in {<<".", "x", "l", "s", "x">>, <<".", "c", "s", "v">>}
    /\ pc' = "read"
    /\ UNCHANGED <<entry, outcome, result, net_calls, gen_log, docArgs, chunkVars,
                   metricVars, deckVars,
                   tmplVars, appVars>>

\* lines 338-339: any other extension
PD_Unsupported ==
    /\ entry = "process_document"
    /\ pc = "extension"
    /\ Lower(SplitExt(file_path)) \notin {<<".", "x", "l", "s", "x">>, <<".", "c", "s", "v">>}
    /\ Return(UnsupportedFormat)
    /\ UNCHANGED <<entry, net_calls, gen_log, docArgs, chunkVars, metricVars, deckVars,
                   tmplVars, appVars>>

\* lines 324-327: the file is read into df
PD_ReadOk ==
    /\ entry = "process_document"
    /\ pc = "read"
    /\ pc' = "dispatch"
    /\ UNCHANGED <<entry, outcome, result, net_calls, gen_log, docArgs, chunkVars,
                   metricVars, deckVars,
                   tmplVars, appVars>>

\* lines 336-337: reading the file raises
PD_ReadFails ==
    /\ entry = "process_document"
    /\ pc = "read"
    /\ Return(ErrorProcessingFile)
    /\ UNCHANGED <<entry, net_calls, gen_log, docArgs, chunkVars, metricVars, deckVars,
                   tmplVars, appVars>>

\* lines 329-331: a player is selected, analyze_player_performance is called
PD_CallAnalyze ==
    /\ entry = "process_document"
    /\ pc = "dispatch"
    /\ Truthy(selected_player)
    /\ pc' = "analyze"
    /\ UNCHANGED <<entry, outcome, result, net_calls, gen_log, docArgs, chunkVars,
                   metricVars, deckVars,
                   tmplVars, appVars>>

\* lines 332-334 and 123-138: no player is selected, get_players_list reads
\* the file again and returns the players, or [] when anything raises
PD_PlayersList ==
    /\ entry = "process_document"
    /\ pc = "dispatch"
    /\ ~Truthy(selected_player)
    /\ Return(PlayersList)
    /\ UNCHANGED <<entry, net_calls, gen_log, docArgs, chunkVars, metricVars, deckVars,
                   tmplVars, appVars>>

(***************************************************************************)
(* analyze_player_performance (document_processor.py:158-311), called by   *)
(* process_document or directly.                                           *)
(***************************************************************************)
InAnalyzePlayer ==
    \/ entry = "process_document" /\ pc = "analyze"
    \/ entry = "analyze_player_performance" /\ pc = "start"

\* lines 300-309: the one call of the service, over the whole dataframe,
\* succeeds
APP_CallOk ==
    /\ InAnalyzePlayer
    /\ client = "client"
    /\ net_calls' = net_calls + 1
    /\ gen_log' = Append(gen_log, "player")
    /\ Return(ServiceText)
    /\ UNCHANGED <<entry, docArgs, chunkVars, metricVars, deckVars,
                   tmplVars, appVars>>

\* lines 310-311: the call raises, the handler joins the column names into
\* the error string
APP_CallFails ==
    /\ InAnalyzePlayer
    /\ client = "client"
    /\ df_columns_str
    /\ net_calls' = net_calls + 1
    /\ gen_log' = Append(gen_log, "player")
    /\ Return(ErrorAnalyzingPlayer)
    /\ UNCHANGED <<entry, docArgs, chunkVars, metricVars, deckVars,
                   tmplVars, appVars>>

\* line 311: the call raises and a column name is not a string, so
\* ', '.join raises TypeError inside the handler; process_document catches
\* it at lines 336-337, a direct caller gets the exception
APP_HandlerRaises ==
    /\ InAnalyzePlayer
    /\ client = "client"
    /\ ~df_columns_str
    /\ net_calls' = net_calls + 1
    /\ gen_log' = Append(gen_log, "player")
    /\ IF entry = "process_document" THEN Return(ErrorProcessingFile) ELSE Raise
    /\ UNCHANGED <<entry, docArgs, chunkVars, metricVars, deckVars,
                   tmplVars, appVars>>

\* lines 300 and 310-311: client is None, client.chat raises AttributeError
\* before any request is sent; the handler runs as above
APP_NoClient ==
    /\ InAnalyzePlayer
    /\ client = "None"
    /\ IF df_columns_str THEN Return(ErrorAnalyzingPlayer) ELSE Raise
    /\ UNCHANGED <<entry, net_calls, gen_log, docArgs, chunkVars, metricVars, deckVars,
                   tmplVars, appVars>>

(***************************************************************************)
(* analyze_chunk (document_processor.py:80-120).                           *)
(***************************************************************************)
\* lines 109-118: the one call of the service succeeds
AC_CallOk ==
    /\ entry = "analyze_chunk"
    /\ pc = "start"
    /\ client = "client"
    /\ net_calls' = net_calls + 1
    /\ gen_log' = Append(gen_log, "chunk")
    /\ Return(ServiceText)
    /\ UNCHANGED <<entry, docArgs, chunkVars, metricVars, deckVars,
                   tmplVars, appVars>>

\* lines 119-120: the call raises OpenAIError
AC_CallOpenAIError ==
    /\ entry = "analyze_chunk"
    /\ pc = "start"
    /\ client = "client"
    /\ net_calls' = net_calls + 1
    /\ gen_log' = Append(gen_log, "chunk")
    /\ Return(ErrorAnalyzingChunk)
    /\ UNCHANGED <<entry, docArgs, chunkVars, metricVars, deckVars,
                   tmplVars, appVars>>

\* line 119 catches OpenAIError only: any other exception of the call
\* leaves analyze_chunk
AC_CallException ==
    /\ entry = "analyze_chunk"
    /\ pc = "start"
    /\ client = "client"
    /\ net_calls' = net_calls + 1
    /\ gen_log' = Append(gen_log, "chunk")
    /\ Raise
    /\ UNCHANGED <<entry, docArgs, chunkVars, metricVars, deckVars,
                   tmplVars, appVars>>

\* lines 109 and 119: client is None, client.chat raises AttributeError
\* before any request is sent, and AttributeError is no OpenAIError
AC_NoClient ==
    /\ entry = "analyze_chunk"
    /\ pc = "start"
    /\ client = "None"
    /\ Raise
    /\ UNCHANGED <<entry, net_calls, gen_log, docArgs, chunkVars, metricVars, deckVars,
                   tmplVars, appVars>>

DocNext ==
    \/ PD_KeyValid
    \/ PD_KeyInvalid
    \/ PD_KeyException
    \/ PD_Supported
    \/ PD_Unsupported
    \/ PD_ReadOk
    \/ PD_ReadFails
    \/ PD_CallAnalyze
    \/ PD_PlayersList
    \/ APP_CallOk
    \/ APP_CallFails
    \/ APP_HandlerRaises
    \/ APP_NoClient
    \/ AC_CallOk
    \/ AC_CallOpenAIError
    \/ AC_CallException
    \/ AC_NoClient

(***************************************************************************)
(* create_presentation (ppt_generator.py:50-120).  In an analysis text a   *)
(* key word the patterns look for ("Hole", "Handicap Group Avg", "Field    *)
(* Avg", "player_score") is one element of the sequence: it stands for its *)
(* letters, none of which is a colon, a line break, white space or a       *)
(* digit.                                                                  *)
(***************************************************************************)
\* index of the first "\n\n" in s at or after i, or Len(s)+1
RECURSIVE FindBlankLine(_, _)
FindBlankLine(s, i) ==
    IF i + 1 > Len(s) THEN Len(s) + 1
    ELSE IF s[i] = "\n" /\ s[i + 1] = "\n" THEN i
    ELSE FindBlankLine(s, i + 1)

\* line 65: s.split('\n\n')
RECURSIVE SplitSections(_)
SplitSections(s) ==
    LET j == FindBlankLine(s, 1)
    IN  IF j > Len(s) THEN <<s>>
        ELSE <<SubSeq(s, 1, j - 1)>> \o SplitSections(Drop(s, j + 2))

NoChart == [type |-> "none", categories |-> <<>>, values |-> <<>>]

\* lines 56-62: the title slide
TitleSlide ==
    [kind |-> "title", title |-> <<"Player Performance Analysis">>,
     body |-> <<[text |-> <<"Performance Analysis Report">>, level |-> 0]>>,
     chart |-> NoChart]

\* lines 69-84: the content slide of a section that is not blank
ContentSlide(section) ==
    LET lines == SplitOn(Strip(section), "\n")
    IN  [kind |-> "content",
         title |-> Strip(lines[1]),
         body |-> [i \in 1..(Len(lines) - 1) |->
                      [text |-> Strip(lines[i + 1]),
                       level |-> IF lines[i + 1] # <<>> /\ lines[i + 1][1] = "-"
                                 THEN 1 ELSE 0]],
         chart |-> NoChart]

\* lines 218-236: the slide of _add_metrics_dashboard
MetricsSlide(m) ==
    [kind |-> "metrics", title |-> <<"Performance Metrics">>, body |-> <<>>,
     chart |-> [type |-> "column", categories |-> m.labels, values |-> m.values]]

\* lines 218-220: the same slide when the chart could not be added
MetricsSlideNoChart ==
    [kind |-> "metrics", title |-> <<"Performance Metrics">>, body |-> <<>>,
     chart |-> NoChart]

\* lines 92-93: re.search(r'Hole \d+:', s) finds a match
HolePatternFound(s) ==
    \E i \in 1..Len(s) :
        /\ s[i] = "Hole"
        /\ i + 1 <= Len(s) /\ s[i + 1] = " "
        /\ SkipDigits(s, i + 2) > i + 2
        /\ SkipDigits(s, i + 2) <= Len(s)
        /\ s[SkipDigits(s, i + 2)] = ":"

\* s has the one-element key word w at i
At(s, i, w) == i <= Len(s) /\ s[i] = w

\* line 95, the pattern
\* Hole (\d+):\s*(\d+(?:\.\d+)?)\s*\(Handicap Group Avg:\s*(\d+(?:\.\d+)?),\s*Field Avg:\s*(\d+(?:\.\d+)?)\)
\* tried at position i
HoleMatchAt(s, i) ==
    LET n1 == i + 2
        n2 == SkipDigits(s, n1)
        v1 == SkipSpace(s, n2 + 1)
        v2 == NumberEnd(s, v1)
        p1 == SkipSpace(s, v2)
        h1 == SkipSpace(s, p1 + 3)
        h2 == NumberEnd(s, h1)
        f1 == SkipSpace(s, SkipSpace(s, h2 + 1) + 2)
        f2 == NumberEnd(s, f1)
    IN  IF /\ At(s, i, "Hole") /\ At(s, i + 1, " ")
           /\ n2 > n1 /\ At(s, n2, ":")
           /\ v2 > v1
           /\ At(s, p1, "(") /\ At(s, p1 + 1, "Handicap Group Avg") /\ At(s, p1 + 2, ":")
           /\ h2 > h1 /\ At(s, h2, ",")
           /\ At(s, SkipSpace(s, h2 + 1), "Field Avg")
           /\ At(s, SkipSpace(s, h2 + 1) + 1, ":")
           /\ f2 > f1 /\ At(s, f2, ")")
        THEN [ok |-> TRUE, hole_num |-> ParseInt(SubSeq(s, n1, n2 - 1)),
              player_score |-> ParseFloat(SubSeq(s, v1, v2 - 1)),
              handicap_group_avg |-> ParseFloat(SubSeq(s, h1, h2 - 1)),
              field_average |-> ParseFloat(SubSeq(s, f1, f2 - 1)),
              end |-> f2 + 1]
        ELSE [ok |-> FALSE, hole_num |-> 0, player_score |-> ParseFloat(<<>>),
              handicap_group_avg |-> ParseFloat(<<>>),
              field_average |-> ParseFloat(<<>>), end |-> i]

\* lines 94-101: the holes re.finditer matches, as the set of their numbers
\* (the keys of hole_stats)
RECURSIVE HoleStats(_, _)
HoleStats(s, i) ==
    IF i > Len(s) THEN {}
    ELSE LET m == HoleMatchAt(s, i)
         IN  IF m.ok THEN {m.hole_num} \cup HoleStats(s, m.end)
             ELSE HoleStats(s, i + 1)

\* lines 106-107: re.search(r'Hole \d+.*?player_score: (\d+\.?\d*)', s)
\* finds a match: the key word, a digit, and later on the same line
\* "player_score: " and a digit
PlayerScorePatternFound(s) ==
    \E i \in 1..Len(s) : \E j \in (i + 3)..Len(s) :
        /\ At(s, i, "Hole") /\ At(s, i + 1, " ")
        /\ i + 2 <= Len(s) /\ IsDigit(s[i + 2])
        /\ \A k \in (i + 3)..(j - 1) : s[k] # "\n"
        /\ At(s, j, "player_score") /\ At(s, j + 1, ":") /\ At(s, j + 2, " ")
        /\ j + 3 <= Len(s) /\ IsDigit(s[j + 3])

\* lines 350-401: the two slides of _add_hole_analysis_slide for the holes
\* of hole_stats; the order of the categories is left out
HoleSlides(holes) ==
    <<[kind |-> "hole_scores", title |-> <<"Hole-by-Hole Performance">>,
       body |-> <<>>,
       chart |-> [type |-> "line", categories |-> holes, values |-> holes]],
      [kind |-> "hole_differences", title |-> <<"Hole Performance Analysis">>,
       body |-> <<>>,
       chart |-> [type |-> "column", categories |-> holes, values |-> holes]]>>

\* lines 405-422: the slide of _add_time_analysis_slide
TimeSlide ==
    [kind |-> "time", title |-> <<"Morning vs Afternoon Performance">>,
     body |-> <<>>,
     chart |-> [type |-> "column", categories |-> <<"Morning", "Afternoon">>,
                values |-> <<>>]]

\* line 355: the keys of the dict d that start with "Hole"
HoleKeys(d) == {k \in DOMAIN d : k \notin {"values", "labels", "percentages"}}

\* lines 119-120: any exception of the body is raised again, wrapped
CP_Raise ==
    /\ pc' = "done"
    /\ outcome' = "raised"

\* lines 53-65: the deck is created with its title slide and the analysis
\* is split into sections
CP_TitleSlide ==
    /\ entry = "create_presentation"
    /\ pc = "start"
    /\ slides' = <<TitleSlide>>
    /\ sections' = SplitSections(analysis)
    /\ pc' = "sections"
    /\ UNCHANGED <<entry, outcome, analysis, deck_metrics, temp_files, faults, chunkVars,
                   metricVars, docVars,
                   tmplVars, appVars>>

\* lines 66-84: a section that is not blank gets a content slide
CP_SectionSlide ==
    /\ entry = "create_presentation"
    /\ pc = "sections"
    /\ sections # <<>>
    /\ Strip(Head(sections)) # <<>>
    /\ slides' = Append(slides, ContentSlide(Head(sections)))
    /\ sections' = Tail(sections)
    /\ UNCHANGED <<callVars, analysis, deck_metrics, temp_files, faults, chunkVars,
                   metricVars, docVars,
                   tmplVars, appVars>>

\* line 67: a blank section gets none
CP_SectionSkip ==
    /\ entry = "create_presentation"
    /\ pc = "sections"
    /\ sections # <<>>
    /\ Strip(Head(sections)) = <<>>
    /\ sections' = Tail(sections)
    /\ UNCHANGED <<callVars, analysis, slides, deck_metrics, temp_files, faults, chunkVars,
                   metricVars, docVars,
                   tmplVars, appVars>>

\* line 87: the metrics are extracted once the sections are done
CP_ExtractMetrics ==
    /\ entry = "create_presentation"
    /\ pc = "sections"
    /\ sections = <<>>
    /\ deck_metrics' = ExtractMetrics(analysis)
    /\ pc' = "metrics"
    /\ UNCHANGED <<entry, outcome, analysis, sections, slides, temp_files, faults, chunkVars,
                   metricVars, docVars,
                   tmplVars, appVars>>

\* line 88 as it would be without the test of metrics['values']: the
\* dashboard slide is added for an empty dict too
CP_NoMetricsDashboard ==
    /\ entry = "create_presentation"
    /\ pc = "metrics"
    /\ deck_metrics.values = <<>>
    /\ slides' = Append(slides, MetricsSlide(deck_metrics))
    /\ pc' = "player_score"
    /\ UNCHANGED <<entry, outcome, analysis, sections, deck_metrics, temp_files, faults,
                   chunkVars, metricVars, docVars,
                   tmplVars, appVars>>

\* line 88: no metric, no dashboard and no hole chart
CP_NoMetrics ==
    /\ entry = "create_presentation"
    /\ pc = "metrics"
    /\ deck_metrics.values = <<>>
    /\ pc' = "player_score"
    /\ UNCHANGED <<entry, outcome, deckVars, chunkVars, metricVars, docVars,
                   tmplVars, appVars>>

\* lines 89 and 212-236: the dashboard slide is added with its chart
CP_MetricsDashboard ==
    /\ entry = "create_presentation"
    /\ pc = "metrics"
    /\ deck_metrics.values # <<>>
    /\ slides' = Append(slides, MetricsSlide(deck_metrics))
    /\ pc' = "holes"
    /\ UNCHANGED <<entry, outcome, analysis, sections, deck_metrics, temp_files, faults,
                   chunkVars, metricVars, docVars,
                   tmplVars, appVars>>

\* lines 238-239: the deck library raises inside _add_metrics_dashboard,
\* before or after the slide was added; the exception is printed
CP_MetricsDashboardFails ==
    /\ entry = "create_presentation"
    /\ pc = "metrics"
    /\ deck_metrics.values # <<>>
    /\ \E added \in BOOLEAN :
           slides' = IF added THEN Append(slides, MetricsSlideNoChart) ELSE slides
    /\ faults' = faults \cup {"dashboard"}
    /\ pc' = "holes"
    /\ UNCHANGED <<entry, outcome, analysis, sections, deck_metrics, temp_files,
                   chunkVars, metricVars, docVars,
                   tmplVars, appVars>>

\* lines 92-103: the hole lines of the analysis get their two chart slides
CP_HoleSlides ==
    /\ entry = "create_presentation"
    /\ pc = "holes"
    /\ HolePatternFound(analysis)
    /\ HoleStats(analysis, 1) # {}
    /\ slides' = slides \o HoleSlides(HoleStats(analysis, 1))
    /\ pc' = "player_score"
    /\ UNCHANGED <<entry, outcome, analysis, sections, deck_metrics, temp_files, faults,
                   chunkVars, metricVars, docVars,
                   tmplVars, appVars>>

\* lines 93 and 102: no hole line, or none in the full form
CP_NoHoleSlides ==
    /\ entry = "create_presentation"
    /\ pc = "holes"
    /\ ~(HolePatternFound(analysis) /\ HoleStats(analysis, 1) # {})
    /\ pc' = "player_score"
    /\ UNCHANGED <<entry, outcome, deckVars, chunkVars, metricVars, docVars,
                   tmplVars, appVars>>

\* lines 106-108: the second hole pattern matches and
\* _add_hole_analysis_slide is given the metrics dict, none of whose keys
\* starts with "Hole": two slides with charts without categories
CP_PlayerScoreSlides ==
    /\ entry = "create_presentation"
    /\ pc = "player_score"
    /\ PlayerScorePatternFound(analysis)
    /\ slides' = slides \o HoleSlides(HoleKeys(deck_metrics))
    /\ pc' = "save"
    /\ UNCHANGED <<entry, outcome, analysis, sections, deck_metrics, temp_files, faults,
                   chunkVars, metricVars, docVars,
                   tmplVars, appVars>>

\* line 107: the second hole pattern does not match
CP_NoPlayerScore ==
    /\ entry = "create_presentation"
    /\ pc = "player_score"
    /\ ~PlayerScorePatternFound(analysis)
    /\ pc' = "save"
    /\ UNCHANGED <<entry, outcome, deckVars, chunkVars, metricVars, docVars,
                   tmplVars, appVars>>

\* the time slide is added when the labels of the metrics, not the keys of
\* the dict, hold morning_avg and afternoon_avg
CP_SaveTimeFromLabels ==
    /\ entry = "create_presentation"
    /\ pc = "save"
    /\ slides' = IF {<<"morning_avg">>, <<"afternoon_avg">>}
                       \subseteq {deck_metrics.labels[i] : i \in 1..Len(deck_metrics.labels)}
                 THEN Append(slides, TimeSlide)
                 ELSE slides
    /\ temp_files' = temp_files + 1
    /\ pc' = "done"
    /\ outcome' = "returned"
    /\ UNCHANGED <<entry, analysis, sections, deck_metrics, faults, chunkVars,
                   metricVars, docVars,
                   tmplVars, appVars>>

\* lines 110-117: the time slide is added when the metrics dict has the keys
\* morning_avg and afternoon_avg; the deck is saved to a temporary file that
\* is kept (delete=False) and the name of the file is returned
CP_Save ==
    /\ entry = "create_presentation"
    /\ pc = "save"
    /\ slides' = IF {"morning_avg", "afternoon_avg"} \subseteq DOMAIN deck_metrics
                 THEN Append(slides, TimeSlide)
                 ELSE slides
    /\ temp_files' = temp_files + 1
    /\ pc' = "done"
    /\ outcome' = "returned"
    /\ UNCHANGED <<entry, analysis, sections, deck_metrics, faults, chunkVars,
                   metricVars, docVars,
                   tmplVars, appVars>>

\* lines 115-116 and 119-120: the temporary file was created and prs.save
\* raises; the file stays
CP_SaveFails ==
    /\ entry = "create_presentation"
    /\ pc = "save"
    /\ temp_files' = temp_files + 1
    /\ faults' = faults \cup {"save"}
    /\ CP_Raise
    /\ UNCHANGED <<entry, analysis, sections, slides, deck_metrics, chunkVars,
                   metricVars, docVars,
                   tmplVars, appVars>>

\* lines 119-120: the deck library raises in any other step (no layout, no
\* placeholder, a chart that cannot be built, no temporary file)
CP_LibraryRaises ==
    /\ entry = "create_presentation"
    /\ \/ pc = "start" /\ faults' = faults \cup {"title"}
       \/ /\ pc = "sections" /\ sections # <<>> /\ Strip(Head(sections)) # <<>>
          /\ faults' = faults \cup {"content"}
       \/ /\ pc = "holes" /\ HolePatternFound(analysis) /\ HoleStats(analysis, 1) # {}
          /\ faults' = faults \cup {"holes"}
       \/ /\ pc = "player_score" /\ PlayerScorePatternFound(analysis)
          /\ faults' = faults \cup {"player_score"}
       \/ pc = "save" /\ faults' = faults \cup {"tempfile"}
    /\ CP_Raise
    /\ UNCHANGED <<entry, analysis, sections, slides, deck_metrics, temp_files,
                   chunkVars, metricVars, docVars,
                   tmplVars, appVars>>

DeckNext ==
    \/ CP_TitleSlide
    \/ CP_SectionSlide
    \/ CP_SectionSkip
    \/ CP_ExtractMetrics
    \/ CP_NoMetrics
    \/ CP_MetricsDashboard
    \/ CP_MetricsDashboardFails
    \/ CP_HoleSlides
    \/ CP_NoHoleSlides
    \/ CP_PlayerScoreSlides
    \/ CP_NoPlayerScore
    \/ CP_Save
    \/ CP_SaveFails
    \/ CP_LibraryRaises

(***************************************************************************)
(* TemplateAnalyzer.generate_prompt (template_analyzer.py:207-230).  The    *)
(* argument is [is_none, dict]; a dict is a function on its keys, and the   *)
(* prompt is kept as the list of its lines.                                 *)
(***************************************************************************)
\* d.get(k, default)
Get(d, k, default) == IF k \in DOMAIN d THEN d[k] ELSE default

\* line 209: the truth value of template_data; None and the empty dict are
\* false
TemplateTruthy(t) == ~t.is_none /\ DOMAIN t.dict # {}

\* line 212: template_data.get('structure', {})
Structure(t) == Get(t.dict, "structure", <<>>)

\* line 226: patterns[:2]
FirstTwo(patterns) == SubSeq(patterns, 1, IF Len(patterns) < 2 THEN Len(patterns) ELSE 2)

\* lines 224-227: the lines the bullet patterns add to the prompt
BulletLines(patterns) ==
    <<<<>>, <<"Use similar bullet point structure as:">>>>
    \o [i \in 1..Len(FirstTwo(patterns)) |-> <<"- ">> \o patterns[i]]

\* line 229: the closing lines of the prompt
ClosingLines ==
    <<<<>>,
      <<"Ensure numerical data is presented in a format matching the template charts.">>>>

\* lines 209-210: template_data is None or empty and self._default_prompt()
\* is evaluated; the class defines no _default_prompt, so the attribute
\* lookup raises AttributeError
GP_NoTemplate ==
    /\ entry = "generate_prompt"
    /\ pc = "start"
    /\ ~TemplateTruthy(template_data)
    /\ pc' = "done"
    /\ outcome' = "raised"
    /\ UNCHANGED <<entry, tmplVars, chunkVars, metricVars, docVars, deckVars,
                   appVars>>

\* lines 212-215: the structure is read and the prompt gets its first line
GP_Start ==
    /\ entry = "generate_prompt"
    /\ pc = "start"
    /\ TemplateTruthy(template_data)
    /\ prompt' = <<<<"Analyze the content and structure it exactly as follows:">>, <<>>>>
    /\ tp_headings' = Get(Structure(template_data), "headings", <<>>)
    /\ pc' = "headings"
    /\ UNCHANGED <<entry, outcome, template_data, chunkVars, metricVars, docVars,
                   deckVars,
                   appVars>>

\* lines 218-220: a heading that is not blank adds the line "# heading"
GP_Heading ==
    /\ entry = "generate_prompt"
    /\ pc = "headings"
    /\ tp_headings # <<>>
    /\ Strip(Head(tp_headings)) # <<>>
    /\ prompt' = Append(prompt, <<"# ">> \o Head(tp_headings))
    /\ tp_headings' = Tail(tp_headings)
    /\ UNCHANGED <<callVars, template_data, chunkVars, metricVars, docVars, deckVars,
                   appVars>>

\* line 219: a blank heading adds nothing
GP_HeadingSkip ==
    /\ entry = "generate_prompt"
    /\ pc = "headings"
    /\ tp_headings # <<>>
    /\ Strip(Head(tp_headings)) = <<>>
    /\ tp_headings' = Tail(tp_headings)
    /\ UNCHANGED <<callVars, template_data, prompt, chunkVars, metricVars, docVars,
                   deckVars,
                   appVars>>

\* lines 223-230: the first two bullet patterns are shown, the closing line
\* is added and the prompt is returned
GP_Bullets ==
    /\ entry = "generate_prompt"
    /\ pc = "headings"
    /\ tp_headings = <<>>
    /\ Get(Structure(template_data), "bullet_patterns", <<>>) # <<>>
    /\ prompt' = prompt
                  \o BulletLines(Get(Structure(template_data), "bullet_patterns", <<>>))
                  \o ClosingLines
    /\ pc' = "done"
    /\ outcome' = "returned"
    /\ UNCHANGED <<entry, template_data, tp_headings, chunkVars, metricVars, docVars,
                   deckVars,
                   appVars>>

\* lines 224 and 229-230: no bullet pattern, the closing line is added and
\* the prompt is returned
GP_NoBullets ==
    /\ entry = "generate_prompt"
    /\ pc = "headings"
    /\ tp_headings = <<>>
    /\ Get(Structure(template_data), "bullet_patterns", <<>>) = <<>>
    /\ prompt' = prompt \o ClosingLines
    /\ pc' = "done"
    /\ outcome' = "returned"
    /\ UNCHANGED <<entry, template_data, tp_headings, chunkVars, metricVars, docVars,
                   deckVars,
                   appVars>>

TemplateNext ==
    \/ GP_NoTemplate
    \/ GP_Start
    \/ GP_Heading
    \/ GP_HeadingSkip
    \/ GP_Bullets
    \/ GP_NoBullets

(***************************************************************************)
(* main (app.py:9-133): the script of the Streamlit app.  Every action of   *)
(* the user starts a run of the script over the session state; the script   *)
(* calls validate_api_key, analyze_player_performance and                   *)
(* create_presentation.  A file is kept as what the script reads from it.   *)
(***************************************************************************)
\* no file: the value None of the uploader and of data_df
NoFile == [name |-> "None", player_col |-> "missing", columns_str |-> TRUE,
           players |-> <<>>]

\* the files of the model: one with a player column, one without, one whose
\* player column is followed by a column named by a number, one in which
\* such a column comes first
AppFiles ==
    {[name |-> "a.csv", player_col |-> "found", columns_str |-> TRUE,
      players |-> <<"Alice", "Bob">>],
     [name |-> "b.csv", player_col |-> "missing", columns_str |-> TRUE,
      players |-> <<>>],
     [name |-> "c.xlsx", player_col |-> "found", columns_str |-> FALSE,
      players |-> <<"Alice">>],
     [name |-> "d.csv", player_col |-> "raises", columns_str |-> FALSE,
      players |-> <<>>]}

\* lines 16-20: players_list is None
NoPlayers == [is_none |-> TRUE, list |-> <<>>]

\* line 47: players_list is a list
Players(l) == [is_none |-> FALSE, list |-> l]

\* the elements of a list
Range(l) == {l[i] : i \in 1..Len(l)}

\* lines 57, 83 and 87: the truth value of a session value
PlayersTruthy(p) == ~p.is_none /\ p.list # <<>>
ResultTruthy(r) == r.type = "str"

\* the texts the service answers with in the model: one without a metric,
\* one with a metric and a blank section, one with a full hole line, one
\* with a player_score line
ServiceTexts ==
    {<<"g">>,
     <<"g", ":", " ", "2", "\n", "\n">>,
     <<"Hole", " ", "2", ":", " ", "5", " ", "(", "Handicap Group Avg", ":", " ",
       "5", ",", " ", "Field Avg", ":", " ", "2", ".", "5", ")">>,
     <<"Hole", " ", "2", " ", "player_score", ":", " ", "5">>}

\* the value of the select box after a run: the state of a widget the run
\* has not shown is dropped
KeptSelector(shown) == IF "player_selector" \in shown THEN player_selector ELSE "None"

\* the script is between two calls
InMain == caller = "main" /\ entry = "main"

\* the user's action starts a run of the script (lines 10-31)
StartRun ==
    /\ reruns < MaxReruns
    /\ reruns' = reruns + 1
    /\ widgets' = {}
    /\ app_pc' = "upload"

\* a callee has finished and the script goes on
Resume ==
    /\ entry' = "main"
    /\ pc' = "run"
    /\ outcome' = "running"

\* lines 27-31: the user uploads a file, replaces it or removes it
User_Upload ==
    /\ InMain
    /\ app_pc = "idle"
    /\ StartRun
    /\ uploaded_file' \in (AppFiles \cup {NoFile}) \ {uploaded_file}
    /\ button' = "none"
    /\ UNCHANGED <<player_selector, download_name>>
    /\ UNCHANGED <<callVars, caller, sessionVars, chunkVars, metricVars, docVars,
                   deckVars, tmplVars>>

\* lines 58-62: the user picks another player in the select box
User_SelectPlayer ==
    /\ InMain
    /\ app_pc = "idle"
    /\ "player_selector" \in widgets
    /\ StartRun
    /\ player_selector' \in Range(players_list.list) \ {player_selector}
    /\ button' = "none"
    /\ UNCHANGED <<uploaded_file, download_name>>
    /\ UNCHANGED <<callVars, caller, sessionVars, chunkVars, metricVars, docVars,
                   deckVars, tmplVars>>

\* one of the buttons the last run has shown is clicked (lines 66, 99, 115)
Click(b, widget) ==
    /\ InMain
    /\ app_pc = "idle"
    /\ widget \in widgets
    /\ StartRun
    /\ button' = b
    /\ UNCHANGED <<uploaded_file, player_selector, download_name>>
    /\ UNCHANGED <<callVars, caller, sessionVars, chunkVars, metricVars, docVars,
                   deckVars, tmplVars>>

User_ClickAnalyze == Click("analyze", "analyze_btn")

User_ClickDownload == Click("download", "download_button")

User_ClickClear == Click("clear", "clear_btn")

\* a step of the script that changes its position only
Goto(from, to) ==
    /\ InMain
    /\ app_pc = from
    /\ app_pc' = to
    /\ UNCHANGED <<callVars, caller, chunkVars, metricVars, docVars, deckVars, tmplVars>>

\* line 33: no file is uploaded, the script goes to the Clear Data button
Main_NoFile ==
    /\ uploaded_file = NoFile
    /\ Goto("upload", "clear")
    /\ UNCHANGED <<sessionVars, uiVars>>

\* the uploaded file is read again although data_df is set
Main_DataReloaded ==
    /\ uploaded_file # NoFile
    /\ data_df # NoFile
    /\ Goto("upload", "select")
    /\ data_df' = uploaded_file
    /\ UNCHANGED <<players_list, analysis_result, analysis_text, analysis_player, uiVars>>

\* line 36: data_df is set already: the uploaded file is not read
Main_DataKept ==
    /\ uploaded_file # NoFile
    /\ data_df # NoFile
    /\ Goto("upload", "select")
    /\ UNCHANGED <<sessionVars, uiVars>>

\* lines 38-47: the file is read into data_df and the sorted players of its
\* player column become players_list
Main_LoadData ==
    /\ uploaded_file # NoFile
    /\ data_df = NoFile
    /\ uploaded_file.player_col = "found"
    /\ Goto("upload", "select")
    /\ data_df' = uploaded_file
    /\ players_list' = Players(uploaded_file.players)
    /\ UNCHANGED <<analysis_result, analysis_text, analysis_player, uiVars>>

\* lines 42 and 48-50: data_df is set, no column name holds "player", the
\* error is shown and the script returns
Main_LoadNoPlayerColumn ==
    /\ uploaded_file # NoFile
    /\ data_df = NoFile
    /\ uploaded_file.player_col = "missing"
    /\ Goto("upload", "idle")
    /\ data_df' = uploaded_file
    /\ player_selector' = KeptSelector(widgets)
    /\ UNCHANGED <<players_list, analysis_result, analysis_text, analysis_player,
                   uploaded_file, button, widgets, reruns, download_name>>

\* lines 42, 46 and 110-111: data_df is set, col.lower() raises on a column
\* name that is no string and the handler of line 110 shows the error
Main_LoadColumnRaises ==
    /\ uploaded_file # NoFile
    /\ data_df = NoFile
    /\ uploaded_file.player_col = "raises"
    /\ Goto("upload", "clear")
    /\ data_df' = uploaded_file
    /\ UNCHANGED <<players_list, analysis_result, analysis_text, analysis_player, uiVars>>

\* lines 38-41 and 110-111: reading the file raises
Main_ReadFails ==
    /\ uploaded_file # NoFile
    /\ data_df = NoFile
    /\ Goto("upload", "clear")
    /\ UNCHANGED <<sessionVars, uiVars>>

\* lines 52-66: the preview, the select box and the Analyze button are
\* shown; the select box keeps its value when it is one of the options and
\* takes the first option otherwise
Main_Select ==
    /\ PlayersTruthy(players_list)
    /\ Goto("select", IF button = "analyze" THEN "validate" ELSE "results")
    /\ player_selector' = IF player_selector \in Range(players_list.list)
                          THEN player_selector
                          ELSE players_list.list[1]
    /\ widgets' = widgets \cup {"player_selector", "analyze_btn"}
    /\ UNCHANGED <<sessionVars, uploaded_file, button, reruns, download_name>>

\* line 57: players_list is None or empty, no select box and no button
Main_NoPlayers ==
    /\ ~PlayersTruthy(players_list)
    /\ Goto("select", "results")
    /\ UNCHANGED <<sessionVars, uiVars>>

\* lines 69 and 75-79: client.models.list() succeeds and
\* analyze_player_performance is called with the data and the player of the
\* select box
Main_KeyValid ==
    /\ InMain
    /\ app_pc = "validate"
    /\ app_pc' = "analyzing"
    /\ net_calls' = net_calls + 1
    /\ entry' = "analyze_player_performance"
    /\ pc' = "start"
    /\ outcome' = "running"
    /\ client' = "client"
    /\ selected_player' = player_selector
    /\ df_columns_str' = data_df.columns_str
    /\ result' = NoResult
    /\ UNCHANGED <<file_path, doc_text, gen_log, caller, sessionVars, uiVars,
                   chunkVars, metricVars, deckVars, tmplVars>>

\* lines 69-72 and 17-19: client.models.list() raises OpenAIError, the error
\* is shown and the script returns
Main_KeyInvalid ==
    /\ InMain
    /\ app_pc = "validate"
    /\ app_pc' = "idle"
    /\ net_calls' = net_calls + 1
    /\ UNCHANGED <<callVars, file_path, selected_player, doc_text, df_columns_str,
                   client, result, gen_log, caller, sessionVars, uiVars, chunkVars,
                   metricVars, deckVars, tmplVars>>

\* lines 69 and 110-111: client.models.list() raises another exception,
\* which validate_api_key does not catch and the handler of line 110 shows
Main_KeyException ==
    /\ InMain
    /\ app_pc = "validate"
    /\ app_pc' = "clear"
    /\ net_calls' = net_calls + 1
    /\ UNCHANGED <<callVars, file_path, selected_player, doc_text, df_columns_str,
                   client, result, gen_log, caller, sessionVars, uiVars, chunkVars,
                   metricVars, deckVars, tmplVars>>

\* line 80: the string analyze_player_performance returned is stored
Main_AnalysisReturned ==
    /\ caller = "main"
    /\ app_pc = "analyzing"
    /\ entry = "analyze_player_performance" /\ pc = "done" /\ outcome = "returned"
    /\ Resume
    /\ app_pc' = "results"
    /\ analysis_result' = result
    /\ analysis_player' = selected_player
    /\ analysis_text' \in IF result = ServiceText THEN ServiceTexts ELSE {<<>>}
    /\ UNCHANGED <<caller, data_df, players_list, uiVars, chunkVars, metricVars,
                   docVars, deckVars, tmplVars>>

\* lines 75 and 110-111: analyze_player_performance raised, the handler of
\* line 110 shows the error
Main_AnalysisRaised ==
    /\ caller = "main"
    /\ app_pc = "analyzing"
    /\ entry = "analyze_player_performance" /\ pc = "done" /\ outcome = "raised"
    /\ Resume
    /\ app_pc' = "clear"
    /\ UNCHANGED <<caller, sessionVars, uiVars, chunkVars, metricVars, docVars,
                   deckVars, tmplVars>>

\* line 87: no analysis is stored, nothing is shown
Main_NoResult ==
    /\ ~ResultTruthy(analysis_result)
    /\ Goto("results", "clear")
    /\ UNCHANGED <<sessionVars, uiVars>>

\* lines 87-92: the stored analysis starts with "Error": it is shown and no
\* deck is built
Main_ErrorResult ==
    /\ ResultTruthy(analysis_result)
    /\ analysis_result.head = "Error"
    /\ Goto("results", "clear")
    /\ UNCHANGED <<sessionVars, uiVars>>

\* lines 87-95: the stored analysis is shown and create_presentation is
\* called with it
Main_CallCreatePresentation ==
    /\ InMain
    /\ app_pc = "results"
    /\ ResultTruthy(analysis_result)
    /\ analysis_result.head # "Error"
    /\ app_pc' = "deck"
    /\ entry' = "create_presentation"
    /\ pc' = "start"
    /\ outcome' = "running"
    /\ analysis' = analysis_text
    /\ sections' = <<>>
    /\ slides' = <<>>
    /\ deck_metrics' = EmptyMetrics
    /\ faults' = {}
    /\ UNCHANGED <<temp_files, caller, sessionVars, uiVars, chunkVars, metricVars,
                   docVars, tmplVars>>

\* lines 96-106: the file of the deck is read, the download button is shown
\* with the player of the select box in its file name, and the file is
\* deleted
Main_OfferDownload ==
    /\ caller = "main"
    /\ app_pc = "deck"
    /\ entry = "create_presentation" /\ pc = "done" /\ outcome = "returned"
    /\ Resume
    /\ app_pc' = "clear"
    /\ download_name' = player_selector
    /\ widgets' = widgets \cup {"download_button"}
    /\ temp_files' = temp_files - 1
    /\ UNCHANGED <<analysis, sections, slides, deck_metrics, faults, caller,
                   sessionVars, uploaded_file, player_selector, button, reruns,
                   chunkVars, metricVars, docVars, tmplVars>>

\* lines 97-104 and 107-108: reading the file or building the download
\* button raises; the handler shows the error and the file is not deleted
Main_DownloadFails ==
    /\ caller = "main"
    /\ app_pc = "deck"
    /\ entry = "create_presentation" /\ pc = "done" /\ outcome = "returned"
    /\ Resume
    /\ app_pc' = "clear"
    /\ UNCHANGED <<caller, sessionVars, uiVars, chunkVars, metricVars, docVars,
                   deckVars, tmplVars>>

\* lines 95 and 107-108: create_presentation raised, the handler shows the
\* error
Main_DeckRaised ==
    /\ caller = "main"
    /\ app_pc = "deck"
    /\ entry = "create_presentation" /\ pc = "done" /\ outcome = "raised"
    /\ Resume
    /\ app_pc' = "clear"
    /\ UNCHANGED <<caller, sessionVars, uiVars, chunkVars, metricVars, docVars,
                   deckVars, tmplVars>>

\* line 114: data_df is None, no Clear Data button; the script ends
Main_ClearNotShown ==
    /\ data_df = NoFile
    /\ Goto("clear", "idle")
    /\ player_selector' = KeptSelector(widgets)
    /\ UNCHANGED <<sessionVars, uploaded_file, button, widgets, reruns, download_name>>

\* lines 114-115: the Clear Data button is shown and was not clicked
Main_ClearShown ==
    /\ data_df # NoFile
    /\ button # "clear"
    /\ Goto("clear", "idle")
    /\ widgets' = widgets \cup {"clear_btn"}
    /\ player_selector' = KeptSelector(widgets)
    /\ UNCHANGED <<sessionVars, uploaded_file, button, reruns, download_name>>

\* lines 115-119: Clear Data was clicked: the three session values are set
\* to None and st.experimental_rerun() starts the script again
Main_ClearData ==
    /\ data_df # NoFile
    /\ button = "clear"
    /\ Goto("clear", "upload")
    /\ data_df' = NoFile
    /\ players_list' = NoPlayers
    /\ analysis_result' = NoResult
    /\ analysis_text' = <<>>
    /\ analysis_player' = "None"
    /\ button' = "none"
    /\ widgets' = {}
    /\ UNCHANGED <<uploaded_file, player_selector, reruns, download_name>>

\* the user and the script
MainNext ==
    \/ User_Upload
    \/ User_SelectPlayer
    \/ User_ClickAnalyze
    \/ User_ClickDownload
    \/ User_ClickClear
    \/ Main_NoFile
    \/ Main_DataKept
    \/ Main_LoadData
    \/ Main_LoadNoPlayerColumn
    \/ Main_LoadColumnRaises
    \/ Main_ReadFails
    \/ Main_Select
    \/ Main_NoPlayers
    \/ Main_KeyValid
    \/ Main_KeyInvalid
    \/ Main_KeyException
    \/ Main_AnalysisReturned
    \/ Main_AnalysisRaised
    \/ Main_NoResult
    \/ Main_ErrorResult
    \/ Main_CallCreatePresentation
    \/ Main_OfferDownload
    \/ Main_DownloadFails
    \/ Main_DeckRaised
    \/ Main_ClearNotShown
    \/ Main_ClearShown
    \/ Main_ClearData

\* the calls the script makes
AppNext ==
    \/ MainNext
    \/ APP_CallOk
    \/ APP_CallFails
    \/ APP_HandlerRaises
    \/ DeckNext

(***************************************************************************)
(* The inputs and the specifications.                                      *)
(***************************************************************************)
\* the chunker's variables while another entry point runs
ChunkIdle ==
    /\ text = <<>>
    /\ max_tokens = 1
    /\ tokenizer = "words"
    /\ paragraphs = <<>>
    /\ chunks = <<>>
    /\ current_chunk = <<>>
    /\ current_tokens = 0

\* a call chunk_content(text, max_tokens) under one of the stub tokenizers
ChunkInit ==
    /\ entry = "chunk_content"
    /\ pc = "start"
    /\ outcome = "running"
    /\ text \in StringsUpTo(TextAlphabet, MaxTextLen)
    /\ max_tokens \in 1..MaxTokens
    /\ tokenizer \in {"words", "chars"}
    /\ paragraphs = <<>>
    /\ chunks = <<>>
    /\ current_chunk = <<>>
    /\ current_tokens = 0

ChunkNext ==
    \/ ChunkStart
    \/ ChunkLongParagraph
    \/ ChunkAccumulate
    \/ ChunkClose
    \/ ChunkReturn

\* the characters analysis texts are drawn from
MetricAlphabet == {"g", "%", ":", " ", "\n", "2", "5", "."}

\* lines of the form "Label: N" and "Label: N%", with and without the space
MetricLabels == {<<"g">>, <<"g", " ", "h">>, <<"g", "%">>}
MetricSeparators == {<<":">>, <<":", " ">>}
MetricNumbers == {<<"2">>, <<"2", "5">>, <<"2", ".", "5">>}
MetricSuffixes == {<<>>, <<"%">>}
MetricLines ==
    {l \o p \o n \o x : l \in MetricLabels, p \in MetricSeparators,
                        n \in MetricNumbers, x \in MetricSuffixes}

\* lines that are not of that form
OtherLines ==
    {<<>>, <<"g">>, <<"g", ":">>, <<"2", "5", "%">>, <<":", "2">>,
     <<"g", ":", " ", "h", ":", " ", "2">>, <<"g", ":", "2", ".">>}

\* lines joined by line breaks
RECURSIVE JoinLines(_)
JoinLines(ls) ==
    IF ls = <<>> THEN <<>>
    ELSE IF Len(ls) = 1 THEN ls[1]
    ELSE ls[1] \o <<"\n">> \o JoinLines(Tail(ls))

\* the analysis texts of the model: every short string, and every text of a
\* few whole lines
MetricTexts ==
    StringsUpTo(MetricAlphabet, MaxMetricLen)
    \cup {JoinLines(ls) : ls \in UNION {[1..k -> MetricLines \cup OtherLines] :
                                        k \in 1..MaxMetricLines}}

\* the extractor's variables while another entry point runs
MetricIdle ==
    /\ mtext = <<>>
    /\ mtext_is_str = TRUE
    /\ metric_matches = <<>>
    /\ metrics = EmptyMetrics

\* a call extract_metrics(text)
MetricsInit ==
    /\ entry = "extract_metrics"
    /\ pc = "start"
    /\ outcome = "running"
    /\ \/ mtext \in MetricTexts /\ mtext_is_str = TRUE
       \/ mtext = <<>> /\ mtext_is_str = FALSE
    /\ metric_matches = <<>>
    /\ metrics = EmptyMetrics

\* the paths of the model
FilePaths ==
    {<<"f", ".", "x", "l", "s", "x">>, <<"f", ".", "c", "s", "v">>,
     <<"f", ".", "d", "o", "c", "x">>, <<"f", ".", "t", "x", "t">>,
     <<"f", ".", "X", "L", "S", "X">>, <<"f", ".", "t", ".", "c", "s", "v">>,
     <<"f">>, <<".", "c", "s", "v">>}

\* the document texts of the model
DocTexts ==
    {<<>>, <<"a">>, <<"a", "\n", "b">>, <<"a", " ", "b", "\n", "b">>}

\* the variables of document_processor.py while another entry point runs
DocIdle ==
    /\ file_path = <<>>
    /\ selected_player = "None"
    /\ doc_text = <<>>
    /\ df_columns_str = TRUE
    /\ client = "client"
    /\ result = NoResult
    /\ net_calls = 0
    /\ gen_log = <<>>

\* a call process_document(file_path, selected_player), a call
\* analyze_player_performance(client, df, selected_player) or a call
\* analyze_chunk(client, chunk)
DocInit ==
    /\ pc = "start"
    /\ outcome = "running"
    /\ result = NoResult
    /\ net_calls = 0
    /\ gen_log = <<>>
    /\ doc_text \in DocTexts
    /\ \/ /\ entry = "process_document"
          /\ file_path \in FilePaths
          /\ selected_player \in {"None", "", "Alice"}
          /\ df_columns_str \in BOOLEAN
          \* line 316: the client is the one validate_api_key returns
          /\ client = "client"
       \/ /\ entry = "analyze_player_performance"
          /\ file_path = <<>>
          /\ selected_player = "Alice"
          /\ df_columns_str \in BOOLEAN
          /\ client \in {"client", "None"}
       \/ /\ entry = "analyze_chunk"
          /\ file_path = <<>>
          /\ selected_player = "None"
          /\ df_columns_str = TRUE
          /\ client \in {"client", "None"}
    \* the token limit and the tokenizer the chunker would run under
    /\ max_tokens \in 1..MaxTokens
    /\ tokenizer \in {"words", "chars"}
    /\ text = <<>>
    /\ paragraphs = <<>>
    /\ chunks = <<>>
    /\ current_chunk = <<>>
    /\ current_tokens = 0

\* the lines of the analysis texts given to create_presentation
DeckLines ==
    {<<>>,
     <<"g">>,
     <<"-", "g">>,
     <<"g", ":", " ", "2">>,
     <<"g", ":", " ", "2", "%">>,
     <<"g", "%", ":", " ", "2">>,
     <<"Hole", " ", "2", ":", " ", "5">>,
     <<"Hole", " ", "2", ":", " ", "5", " ", "(", "Handicap Group Avg", ":", " ",
       "5", ",", " ", "Field Avg", ":", " ", "2", ".", "5", ")">>,
     <<"Hole", " ", "2", " ", "player_score", ":", " ", "5">>,
     <<"morning_avg", ":", " ", "2", " ", "afternoon_avg", ":", " ", "5">>}

\* the analysis texts given to create_presentation
DeckTexts ==
    {<<>>} \cup {JoinLines(ls) : ls \in UNION {[1..k -> DeckLines] : k \in 1..MaxDeckLines}}

\* the variables of create_presentation while another entry point runs
DeckIdle ==
    /\ analysis = <<>>
    /\ sections = <<>>
    /\ slides = <<>>
    /\ deck_metrics = EmptyMetrics
    /\ temp_files = 0
    /\ faults = {}

\* a call create_presentation(analysis)
DeckInit ==
    /\ entry = "create_presentation"
    /\ pc = "start"
    /\ outcome = "running"
    /\ analysis \in DeckTexts
    /\ sections = <<>>
    /\ slides = <<>>
    /\ deck_metrics = EmptyMetrics
    /\ temp_files = 0
    /\ faults = {}

\* the headings and the bullet patterns of the templates of the model
TemplateHeadings == {<<>>, <<" ">>, <<"A">>, <<"B", " ">>}
TemplateBullets == {<<"o">>, <<"o", " ", "-">>}

\* the dicts learn_from_template may put under 'structure'
TemplateStructures ==
    {[headings |-> h, bullet_patterns |-> b] :
        h \in UNION {[1..k -> TemplateHeadings] : k \in 0..MaxHeadings},
        b \in UNION {[1..k -> TemplateBullets] : k \in 0..MaxBulletPatterns}}
    \cup {[sections |-> <<>>]}

\* the arguments of generate_prompt: None, the empty dict, a dict without
\* 'structure', a dict with it
TemplateData ==
    {[is_none |-> TRUE, dict |-> <<>>], [is_none |-> FALSE, dict |-> <<>>],
     [is_none |-> FALSE, dict |-> [styles |-> <<>>]]}
    \cup {[is_none |-> FALSE, dict |-> [structure |-> st]] : st \in TemplateStructures}

\* the variables of generate_prompt while another entry point runs
TemplateIdle ==
    /\ template_data = [is_none |-> TRUE, dict |-> <<>>]
    /\ tp_headings = <<>>
    /\ prompt = <<>>

\* a call generate_prompt(template_data)
TemplateInit ==
    /\ entry = "generate_prompt"
    /\ pc = "start"
    /\ outcome = "running"
    /\ template_data \in TemplateData
    /\ tp_headings = <<>>
    /\ prompt = <<>>

\* the session of the app before its first run
NewSession ==
    /\ uploaded_file = NoFile
    /\ data_df = NoFile
    /\ players_list = NoPlayers
    /\ analysis_result = NoResult
    /\ analysis_text = <<>>
    /\ analysis_player = "None"
    /\ player_selector = "None"
    /\ button = "none"
    /\ widgets = {}
    /\ reruns = 0
    /\ download_name = "None"

\* the variables of the app while an entry point is called without it
AppIdle ==
    /\ caller = "none"
    /\ app_pc = "off"
    /\ NewSession

\* the first run of the script in a new session
AppInit ==
    /\ caller = "main"
    /\ app_pc = "upload"
    /\ NewSession
    /\ entry = "main"
    /\ pc = "run"
    /\ outcome = "running"

\* chunk_content alone
InitChunk == ChunkInit /\ MetricIdle /\ DocIdle /\ DeckIdle /\ TemplateIdle /\ AppIdle

SpecChunk == InitChunk /\ [][ChunkNext]_vars

\* extract_metrics alone
InitMetrics ==
    MetricsInit /\ ChunkIdle /\ DocIdle /\ DeckIdle /\ TemplateIdle /\ AppIdle

SpecMetrics == InitMetrics /\ [][MetricsNext]_vars

\* the entry points of document_processor.py that call the service
InitDoc == DocInit /\ MetricIdle /\ DeckIdle /\ TemplateIdle /\ AppIdle

SpecDoc == InitDoc /\ [][DocNext]_vars

\* create_presentation alone
InitDeck ==
    DeckInit /\ ChunkIdle /\ MetricIdle /\ DocIdle /\ TemplateIdle /\ AppIdle

SpecDeck == InitDeck /\ [][DeckNext]_vars

\* generate_prompt alone
InitTemplate ==
    TemplateInit /\ ChunkIdle /\ MetricIdle /\ DocIdle /\ DeckIdle /\ AppIdle

SpecTemplate == InitTemplate /\ [][TemplateNext]_vars

\* a session of the app
InitApp == AppInit /\ ChunkIdle /\ MetricIdle /\ DocIdle /\ DeckIdle /\ TemplateIdle

SpecApp == InitApp /\ [][AppNext]_vars

Init == InitChunk \/ InitMetrics \/ InitDoc \/ InitDeck \/ InitTemplate \/ InitApp

Next ==
    \/ ChunkNext
    \/ MetricsNext
    \/ DocNext
    \/ DeckNext
    \/ TemplateNext
    \/ MainNext

\* every entry point and the app
Spec == Init /\ [][Next]_vars


(***************************************************************************)
(* Properties of process_document and analyze_chunk.                       *)
(***************************************************************************)
\* a finished call of process_document
ProcessDone == entry = "process_document" /\ pc = "done"

\* the lower-cased extension of the file given to process_document
FileExtension == Lower(SplitExt(file_path))

\* the extensions the specification names as supported: xlsx, csv, docx
SpecifiedExtensions ==
    {<<".", "x", "l", "s", "x">>, <<".", "c", "s", "v">>, <<".", "d", "o", "c", "x">>}

\* C5: for a file with an unsupported extension process_document returns the
\* UnsupportedFormat outcome and has issued no network call, whatever the
\* state of the API key.
C5_UnsupportedBeforeNetwork ==
    (ProcessDone /\ FileExtension \notin SpecifiedExtensions)
        => (result = UnsupportedFormat /\ net_calls = 0)

\* C6: process_document rejects a file as UnsupportedFormat exactly when its
\* lower-cased extension is outside {xlsx, csv, docx}; stated for the calls
\* that got past the validation of the API key.
C6_RejectsExactlyOtherExtensions ==
    (ProcessDone /\ result \notin {InvalidKeyResult, ErrorProcessingDocument})
        => (result = UnsupportedFormat <=> FileExtension \notin SpecifiedExtensions)

\* the entry points the error policy names
PolicyEntryPoints ==
    {"process_document", "analyze_chunk", "analyze_player_performance",
     "extract_metrics", "create_presentation"}

\* C7: no public entry point lets a failure escape as a raised exception:
\* each call ends by returning a value.
C7_NoEntryPointRaises ==
    (entry \in PolicyEntryPoints /\ pc = "done") => outcome = "returned"

\* C8: analyze_chunk issues exactly one text-generation call per invocation,
\* and whenever it does not get the text of the service it returns the
\* string "Error analyzing chunk: ..." instead of raising.
C8_OneCallErrorString ==
    (entry = "analyze_chunk" /\ pc = "done")
        => /\ gen_log = <<"chunk">>
           /\ result # ServiceText
                  => (outcome = "returned" /\ result = ErrorAnalyzingChunk)

\* the number of calls in the log whose purpose is in ps
RECURSIVE CountCalls(_, _)
CountCalls(log, ps) ==
    IF log = <<>> THEN 0
    ELSE (IF Head(log) \in ps THEN 1 ELSE 0) + CountCalls(Tail(log), ps)

\* C9: a run of the pipeline that analyses a text of k chunks makes exactly
\* k analysis calls, and one synthesis call more exactly when k > 1; stated
\* for the texts none of whose chunks is empty.
C9_CallsPerChunk ==
    (/\ ProcessDone
     /\ gen_log # <<>>
     /\ \A i \in 1..Len(ChunkContent(doc_text)) : ChunkContent(doc_text)[i] # <<>>)
        => LET k == Len(ChunkContent(doc_text))
           IN  /\ CountCalls(gen_log, {"chunk", "player"}) = k
               /\ CountCalls(gen_log, {"synthesis"}) = IF k > 1 THEN 1 ELSE 0

(***************************************************************************)
(* Properties of extract_metrics.                                          *)
(***************************************************************************)
\* a finished call of extract_metrics on a string
MetricsDone == entry = "extract_metrics" /\ pc = "done" /\ mtext_is_str

\* the lines "Label: N%" of the model, as [line, label, number]
PercentLines ==
    {[line |-> l \o <<":", " ">> \o n \o <<"%">>, label |-> l, number |-> n] :
        l \in {<<"g">>, <<"g", " ", "h">>}, n \in MetricNumbers}

\* C10: for every line "Label: N%" of the text, extract_metrics yields a
\* record with that label, the value N as a float and is_percentage true.
C10_PercentLineIsPercentage ==
    MetricsDone =>
        \A p \in PercentLines :
            (\E i \in 1..Len(SplitOn(mtext, "\n")) : SplitOn(mtext, "\n")[i] = p.line)
            => \E i \in 1..Len(metrics.labels) :
                   /\ metrics.labels[i] = p.label
                   /\ metrics.values[i] = ParseFloat(p.number)
                   /\ metrics.percentages[i] = TRUE

\* the lines "Label: N" of the model without a percent sign, the label a run
\* of letters and spaces, as [line, label, number]
PlainLines ==
    {[line |-> l \o p \o n, label |-> l, number |-> n] :
        l \in {<<"g">>, <<"g", " ", "h">>}, p \in MetricSeparators, n \in MetricNumbers}

\* the line s as a line of PlainLines
PlainLine(s) == CHOOSE p \in PlainLines : p.line = s

\* C11: for a text that consists only of lines "Label: N" without a percent
\* sign, extract_metrics yields exactly one record per line, in line order,
\* with the line's label, the value N and is_percentage false; the three
\* sequences have the same length, and a repeated label is kept.
C11_PlainLinesOneRecordEach ==
    LET lines == SplitOn(mtext, "\n")
    IN  (MetricsDone /\ \A i \in 1..Len(lines) : \E p \in PlainLines : p.line = lines[i])
            => /\ metrics.labels = [i \in 1..Len(lines) |-> PlainLine(lines[i]).label]
               /\ metrics.values =
                      [i \in 1..Len(lines) |-> ParseFloat(PlainLine(lines[i]).number)]
               /\ metrics.percentages = [i \in 1..Len(lines) |-> FALSE]

\* C11, witness: the call on "g: 2\ng: 2.5" has returned two records with
\* the same label.
C11_Witness ==
    /\ MetricsDone
    /\ mtext = <<"g", ":", " ", "2", "\n", "g", ":", " ", "2", ".", "5">>
    /\ Len(metrics.values) = 2

\* the pattern of line 19 has a match in s: a colon that follows a character
\* of a label and is followed, after any white space, by a digit
HasMetricMatch(s) ==
    \E j \in 2..Len(s) : \E k \in (j + 1)..Len(s) :
        /\ s[j] = ":"
        /\ s[j - 1] \notin {":", "\n"}
        /\ \A x \in (j + 1)..(k - 1) : IsSpace(s[x])
        /\ IsDigit(s[k])

\* C19 as stated: extract_metrics never raises, and a text none of whose
\* lines matches the pattern yields three empty sequences.
C19_NoMatchingLineNoRecord ==
    (entry = "extract_metrics" /\ pc = "done")
        => /\ outcome = "returned"
           /\ (\A i \in 1..Len(SplitOn(mtext, "\n")) :
                   ~HasMetricMatch(SplitOn(mtext, "\n")[i]))
                  => metrics = EmptyMetrics

\* C19 as amended: extract_metrics never raises, the three sequences have
\* the same length, and a text in which the pattern matches nowhere, a match
\* being allowed to run over the line break after a colon, yields three
\* empty sequences.
C19_NoMatchNoRecord ==
    (entry = "extract_metrics" /\ pc = "done")
        => /\ outcome = "returned"
           /\ Len(metrics.labels) = Len(metrics.values)
           /\ Len(metrics.percentages) = Len(metrics.values)
           /\ ~HasMetricMatch(mtext) => metrics = EmptyMetrics

\* C19, witness: the call on ":2", which has a colon and a number and no
\* label, has returned no record.
C19_Witness ==
    /\ MetricsDone
    /\ mtext = <<":", "2">>
    /\ metrics = EmptyMetrics

(***************************************************************************)
(* Properties of create_presentation.                                      *)
(***************************************************************************)
\* a finished call of create_presentation
DeckDone == entry = "create_presentation" /\ pc = "done"

\* the slides that carry a chart
ChartSlides == {i \in 1..Len(slides) : slides[i].chart # NoChart}

\* C12: given the empty analysis string, and a deck library that does not
\* fail, create_presentation returns, and the deck has the title slide and
\* no slide with a chart.
C12_EmptyAnalysisTitleOnly ==
    (DeckDone /\ analysis = <<>> /\ faults = {})
        => /\ outcome = "returned"
           /\ slides # <<>>
           /\ slides[1] = TitleSlide
           /\ ChartSlides = {}

\* C12, witness: the call on the empty string has returned the name of the
\* saved file of a deck of one slide.
C12_Witness ==
    /\ DeckDone
    /\ analysis = <<>>
    /\ outcome = "returned"
    /\ slides = <<TitleSlide>>
    /\ temp_files = 1

\* the steps that render an optional slide
OptionalSlideSteps == {"content", "dashboard", "holes", "player_score"}

\* C13: when the deck library fails only while optional slides are rendered
\* (content slides, the metrics dashboard, the hole slides), the call is not
\* aborted: the deck is saved and its file name returned.
C13_OptionalSlideFailureSkipped ==
    (DeckDone /\ faults # {} /\ faults \subseteq OptionalSlideSteps)
        => (outcome = "returned" /\ temp_files = 1)

\* C14: the deck of a returned call has a pie-chart slide exactly when one
\* of the extracted metrics has is_percentage true.
C14_PieChartIffPercentage ==
    (DeckDone /\ outcome = "returned" /\ faults = {})
        => ((\E i \in 1..Len(slides) : slides[i].chart.type = "pie")
              <=> (\E i \in 1..Len(deck_metrics.percentages) :
                      deck_metrics.percentages[i]))

\* C17: in the deck of a returned call the title slide is first and the
\* metrics chart slide precedes every content slide.
C17_MetricsSlideBeforeContent ==
    (DeckDone /\ outcome = "returned")
        => /\ slides[1].kind = "title"
           /\ \A i, j \in 1..Len(slides) :
                  (slides[i].kind = "metrics" /\ slides[j].kind = "content") => i < j

\* C24: no deck create_presentation builds holds the "Morning vs Afternoon
\* Performance" slide, whatever the analysis text, and the metrics of the
\* call have the keys values, labels and percentages and no other.
C24_NoTimeSlide ==
    entry = "create_presentation" =>
        /\ \A i \in 1..Len(slides) : slides[i].kind # "time"
        /\ DOMAIN deck_metrics = {"values", "labels", "percentages"}

\* a returned call on a text that gives morning_avg and afternoon_avg as
\* metrics: they are labels of the metrics, and the deck has no time slide
C24_Witness ==
    /\ DeckDone
    /\ outcome = "returned"
    /\ {<<"morning_avg">>, <<"afternoon_avg">>} \subseteq Range(deck_metrics.labels)
    /\ \A i \in 1..Len(slides) : slides[i] # TimeSlide

(***************************************************************************)
(* Properties of TemplateAnalyzer.generate_prompt.                         *)
(***************************************************************************)
\* C16: when no template data is supplied (None or the empty dict),
\* generate_prompt does not fail and returns a prompt.
C16_NoTemplateDefaultPrompt ==
    (entry = "generate_prompt" /\ pc = "done" /\ ~TemplateTruthy(template_data))
        => (outcome = "returned" /\ prompt # <<>>)

(***************************************************************************)
(* Properties of the app.                                                  *)
(***************************************************************************)
\* C15: when a run of the script has ended, no temporary deck file that
\* create_presentation created for it remains, whichever way the run ended.
C15_TempFilesDeleted ==
    (caller = "main" /\ app_pc = "idle") => temp_files = 0

\* the failure outcomes of the analysis stage: the key is not valid, the
\* format is not supported, the file cannot be read, the service fails
FailureResults ==
    {InvalidKeyResult, UnsupportedFormat, ErrorProcessingFile, ErrorProcessingDocument,
     ErrorAnalyzingPlayer}

\* C18: every failure outcome process_document or
\* analyze_player_performance returns is a string that begins with "Error",
\* and the app calls create_presentation only with an analysis result that
\* is no failure outcome and does not begin with "Error".
C18_FailuresBeginWithError ==
    /\ (/\ entry \in {"process_document", "analyze_player_performance"}
        /\ pc = "done"
        /\ result \in FailureResults)
           => (result.type = "str" /\ result.head = "Error")
    /\ (caller = "main" /\ entry = "create_presentation")
           => (analysis_result.head # "Error" /\ analysis_result \notin FailureResults)

\* C20: between two runs of the script, data_df is set only if players_list
\* is set.
C20_DataImpliesPlayers ==
    (caller = "main" /\ app_pc = "idle" /\ data_df # NoFile) => ~players_list.is_none

\* C21: whenever the download button of the deck is shown, the player in
\* its file name is the player whose data produced the stored
\* analysis_result, whatever players were selected and analysed before.
C21_DownloadNamesAnalysedPlayer ==
    (caller = "main" /\ "download_button" \in widgets)
        => download_name = analysis_player

ChunkDone == entry = "chunk_content" /\ pc = "done"

\* the words of a list of chunks joined in their emitted order
RECURSIVE WordsOfChunks(_)
WordsOfChunks(cs) ==
    IF cs = <<>> THEN <<>> ELSE SplitWs(Head(cs)) \o WordsOfChunks(Tail(cs))

\* C1: every chunk chunk_content returns has a token count strictly below
\* max_tokens.
C1_ChunksBelowLimit ==
    ChunkDone => \A i \in 1..Len(chunks) : GetTokenCount(chunks[i]) < max_tokens

\* C2: the words of the returned chunks, taken in emitted order, are the
\* words of the input text in the same order.
C2_ChunksLosslessInOrder ==
    ChunkDone => WordsOfChunks(chunks) = SplitWs(text)

\* C3: no chunk chunk_content returns is the empty string.
C3_NoEmptyChunk ==
    ChunkDone => \A i \in 1..Len(chunks) : chunks[i] # <<>>

\* C4: chunk_content of the empty text returns the empty sequence.
C4_EmptyTextNoChunks ==
    (ChunkDone /\ text = <<>>) => chunks = <<>>

\* the number of occurrences of the word w in the sequence of words ws
RECURSIVE CountWord(_, _)
CountWord(ws, w) ==
    IF ws = <<>> THEN 0
    ELSE (IF Head(ws) = w THEN 1 ELSE 0) + CountWord(Tail(ws), w)

\* C23: the words of the returned chunks and the words of the input text
\* are the same multiset: every word occurs in the chunks as often as in
\* the text, in whatever order the chunks are emitted.
C23_ChunksSameWordMultiset ==
    ChunkDone =>
        LET out == WordsOfChunks(chunks)
            inp == SplitWs(text)
        IN  \A w \in Range(out) \cup Range(inp) : CountWord(out, w) = CountWord(inp, w)

\* a finished call that returned the words of a text of two words or more
\* in another order than the text has them
C23_Witness ==
    /\ ChunkDone
    /\ Len(SplitWs(text)) >= 2
    /\ WordsOfChunks(chunks) # SplitWs(text)

====
